---------------------------- MODULE Spec2Model ----------------------------
(***************************************************************************)
(* Model of the lolang expression interpreter: the single-pass Pratt       *)
(* compiler (src/src/compiler.rs), the stack virtual machine               *)
(* (src/src/vm.rs) and the interpret glue (src/src/main.rs).               *)
(*                                                                         *)
(* The scanner, parser, rule table, chunk and value modules are not part   *)
(* of the three source files; they are modelled from the specification     *)
(* and from the way the three files call them.                             *)
(***************************************************************************)
EXTENDS Integers, Sequences, FiniteSets, TLC

(***************************************************************************)
(* Bounds of the model.                                                    *)
(***************************************************************************)
\* number literals of the generated sources are the single digits 0..MaxNum
MaxNum == 2
\* every token sequence of at most MaxTokens tokens is a source
MaxTokens == 2
\* capacity of the operand stack (constants::STACK_MAX, scaled down)
STACK_MAX == 3
\* run_prompt reads at most MaxLines lines before the line "exit"
MaxLines == 2
\* disassemble_chunk is called at most MaxListings times on a chunk
MaxListings == 2
\* the number of pool entries a Constant operand of the specification's
\* width can address (256 for its 8-bit operand, scaled down)
OperandLimit == 2

(***************************************************************************)
(* Values: the tagged union GenericValue {Nil, Bool, Number, Text}.        *)
(* A Number is an exact rational n/d in lowest terms with d > 0; the       *)
(* non-finite floats are d = 0 with n = 1 (+inf), n = -1 (-inf) and n = 0  *)
(* (NaN).  The sign of a zero is not represented.  A Text carries its      *)
(* lexeme s, a sequence of character codes.                                *)
(***************************************************************************)
Abs(x) == IF x < 0 THEN -x ELSE x

Sign(x) == IF x > 0 THEN 1 ELSE IF x < 0 THEN -1 ELSE 0

RECURSIVE Gcd(_, _)
Gcd(a, b) == IF b = 0 THEN a ELSE Gcd(b, a % b)

from_none == [tag |-> "Nil", n |-> 0, d |-> 1, s |-> <<>>]

from_bool(b) == [tag |-> "Bool", n |-> IF b THEN 1 ELSE 0, d |-> 1, s |-> <<>>]

\* the rational n/d as a Number, normalised
Rat(n, d) ==
    IF d = 0 THEN [tag |-> "Number", n |-> Sign(n), d |-> 0, s |-> <<>>]
    ELSE LET g == Gcd(Abs(n), Abs(d))
             sg == Sign(d)
         IN [tag |-> "Number", n |-> (sg * n) \div g, d |-> Abs(d) \div g, s |-> <<>>]

from_number(n) == Rat(n, 1)

from_string(lexeme) == [tag |-> "Text", n |-> 0, d |-> 1, s |-> lexeme]

IsNumber(v) == v.tag = "Number"

IsNaN(v) == v.tag = "Number" /\ v.d = 0 /\ v.n = 0

Ok(v) == [ok |-> TRUE, v |-> v]

Err == [ok |-> FALSE, v |-> from_none]

\* float addition on the rational representation
NumAdd(a, b) ==
    IF a.d = 0 /\ b.d = 0
    THEN (IF a.n = b.n THEN Rat(a.n, 0) ELSE Rat(0, 0))
    ELSE Rat(a.n * b.d + b.n * a.d, a.d * b.d)

NumNeg(a) == Rat(-a.n, a.d)

NumMul(a, b) == Rat(a.n * b.n, a.d * b.d)

NumRecip(a) == IF a.n < 0 THEN Rat(-a.d, -a.n) ELSE Rat(a.d, a.n)

\* float comparison a > b; false whenever an operand is NaN
NumGt(a, b) ==
    IF IsNaN(a) \/ IsNaN(b) THEN FALSE
    ELSE IF a.d = 0 /\ b.d = 0 THEN a.n > b.n
    ELSE a.n * b.d > b.n * a.d

\* float equality a == b; NaN differs from itself
NumEq(a, b) == ~IsNaN(a) /\ ~IsNaN(b) /\ a.n = b.n /\ a.d = b.d

\* impl Add/Sub/Mul/Div/Neg for GenericValue: Ok for Numbers, Err otherwise
ValueAdd(v1, v2) ==
    IF IsNumber(v1) /\ IsNumber(v2) THEN Ok(NumAdd(v1, v2)) ELSE Err

ValueSub(v1, v2) ==
    IF IsNumber(v1) /\ IsNumber(v2) THEN Ok(NumAdd(v1, NumNeg(v2))) ELSE Err

ValueMul(v1, v2) ==
    IF IsNumber(v1) /\ IsNumber(v2) THEN Ok(NumMul(v1, v2)) ELSE Err

ValueDiv(v1, v2) ==
    IF IsNumber(v1) /\ IsNumber(v2) THEN Ok(NumMul(v1, NumRecip(v2))) ELSE Err

ValueNeg(v) == IF IsNumber(v) THEN Ok(NumNeg(v)) ELSE Err

(***************************************************************************)
(* Opcodes, as the usize values written into the bytecode.                 *)
(***************************************************************************)
OpReturn == 0
OpConstant == 1
OpNegate == 2
OpAdd == 3
OpSubtract == 4
OpMultiply == 5
OpDivide == 6
OpNil == 7
OpFalse == 8
OpTrue == 9
OpNot == 10
OpEqual == 11
OpGreater == 12
OpLess == 13

(***************************************************************************)
(* Chunk: bytecode, the parallel line map, the constant pool.              *)
(***************************************************************************)
EmptyChunk == [bytecode |-> <<>>, lines |-> <<>>, const_pool |-> <<>>, count |-> 0]

write_chunk(chunk, byte, line) ==
    [chunk EXCEPT !.bytecode = Append(@, byte),
                  !.lines = Append(@, line),
                  !.count = @ + 1]

\* add_const: the chunk with the value appended, and the index of the value
add_const(chunk, value) ==
    [chunk |-> [chunk EXCEPT !.const_pool = Append(@, value)],
     index |-> Len(chunk.const_pool)]

(***************************************************************************)
(* Tokens.  A lexeme is a sequence of character codes: the digits 0..9     *)
(* stand for themselves and Dot for the decimal point.                     *)
(***************************************************************************)
Dot == 10

Tok(type, lexeme) == [type |-> type, lexeme |-> lexeme, line |-> 1]

NoToken == [type |-> "None", lexeme |-> <<>>, line |-> 0]

EOFToken == Tok("EOF", <<>>)

\* Scanner::next_token over an already tokenised source: the tokens in order,
\* then the end-of-input token
next_token(toks, pos) == IF pos <= Len(toks) THEN toks[pos] ELSE EOFToken

RECURSIVE DigitsValue(_)
DigitsValue(ds) ==
    IF ds = <<>> THEN 0
    ELSE 10 * DigitsValue(SubSeq(ds, 1, Len(ds) - 1)) + ds[Len(ds)]

RECURSIVE Pow10(_)
Pow10(k) == IF k = 0 THEN 1 ELSE 10 * Pow10(k - 1)

\* lexeme.parse::<f64>(): digits, optionally a point and more digits
ParseF64(lexeme) ==
    LET dots == {i \in 1..Len(lexeme) : lexeme[i] = Dot}
    IN IF dots = {} THEN Rat(DigitsValue(lexeme), 1)
       ELSE LET p == CHOOSE i \in dots : TRUE
                whole == SubSeq(lexeme, 1, p - 1)
                frac == SubSeq(lexeme, p + 1, Len(lexeme))
            IN Rat(DigitsValue(whole) * Pow10(Len(frac)) + DigitsValue(frac),
                   Pow10(Len(frac)))

(***************************************************************************)
(* Precedence levels and the ParseRule table.                              *)
(***************************************************************************)
PrecNone == 0
PrecAssignment == 1
PrecEquality == 2
PrecComparison == 3
PrecTerm == 4
PrecFactor == 5
PrecUnary == 6
PrecCall == 7
PrecPrimary == 8

Rule(prefix, infix, precedence) ==
    [prefix |-> prefix, infix |-> infix, precedence |-> precedence]

get_rule(type) ==
    CASE type = "LeftParen" -> Rule("Grouping", "Null", PrecNone)
      [] type = "Minus" -> Rule("Unary", "Binary", PrecTerm)
      [] type = "Plus" -> Rule("Null", "Binary", PrecTerm)
      [] type \in {"Slash", "Star"} -> Rule("Null", "Binary", PrecFactor)
      [] type = "Bang" -> Rule("Unary", "Null", PrecNone)
      [] type \in {"BangEqual", "EqualEqual"} -> Rule("Null", "Binary", PrecEquality)
      [] type \in {"Greater", "GreaterEqual", "Less", "LessEqual"} ->
            Rule("Null", "Binary", PrecComparison)
      [] type = "String" -> Rule("String", "Null", PrecNone)
      [] type = "Number" -> Rule("Number", "Null", PrecNone)
      [] type \in {"False", "True", "Nil"} -> Rule("Literal", "Null", PrecNone)
      [] OTHER -> Rule("Null", "Null", PrecNone)


(***************************************************************************)
(* Parser: previous/current token and the had_error flag.  The record also *)
(* carries the scanner (toks, pos), the chunk being written, and the       *)
(* messages handed to the compile-time error reporter.                     *)
(***************************************************************************)
NewParser(s, chunk) ==
    [toks |-> s, pos |-> 1, previous |-> NoToken, current |-> NoToken,
     had_error |-> FALSE, reports |-> <<>>, chunk |-> chunk]

\* errors::error(line, message): reports; it has no access to the parser
error(P, message) == [P EXCEPT !.reports = Append(@, message)]

\* the fetch loop of Parser::advance: Error tokens are reported and skipped
RECURSIVE fetch(_)
fetch(P) ==
    LET t == next_token(P.toks, P.pos)
        P1 == [P EXCEPT !.pos = @ + 1]
    IN IF t.type # "Error" THEN [P1 EXCEPT !.current = t]
       ELSE fetch([P1 EXCEPT !.had_error = TRUE,
                             !.reports = Append(@, "Scan error")])

advance(P) == fetch([P EXCEPT !.previous = P.current])

consume(P, expected, message) ==
    IF P.current.type = expected THEN advance(P)
    ELSE [P EXCEPT !.had_error = TRUE, !.reports = Append(@, message)]

(***************************************************************************)
(* Compiler (src/src/compiler.rs).                                         *)
(***************************************************************************)
emit_byte(P, byte, previous_line) ==
    [P EXCEPT !.chunk = write_chunk(@, byte, previous_line)]

emit_bytes(P, byte1, byte2, previous_line) ==
    emit_byte(emit_byte(P, byte1, previous_line), byte2, previous_line)

\* mutant of make_constant: the pool length after the append, not the index
make_constant_off_by_one(value, chunk) ==
    [chunk |-> add_const(chunk, value).chunk, index |-> Len(chunk.const_pool) + 1]

\* mutant of make_constant: the index truncated to the operand width
make_constant_narrow_operand(value, chunk) ==
    [chunk |-> add_const(chunk, value).chunk,
     index |-> Len(chunk.const_pool) % OperandLimit]

\* the index is a usize and is emitted as such: no width, no limit
make_constant(value, chunk) == add_const(chunk, value)

emit_constant(P, previous_line, value) ==
    LET made == make_constant(value, P.chunk)
    IN emit_bytes([P EXCEPT !.chunk = made.chunk], OpConstant, made.index,
                  previous_line)

string(P, token) == emit_constant(P, token.line, from_string(token.lexeme))

number(P, token) == emit_constant(P, token.line, ParseF64(token.lexeme))

literal(P, token) ==
    CASE token.type = "False" -> emit_byte(P, OpFalse, token.line)
      [] token.type = "Nil" -> emit_byte(P, OpNil, token.line)
      [] token.type = "True" -> emit_byte(P, OpTrue, token.line)
      [] OTHER -> P

\* the opcode(s) binary emits for the operator, after the right operand
binary_emit(P, token) ==
    LET op == token.type
        line == token.line
    IN CASE op = "Plus" -> emit_byte(P, OpAdd, line)
         [] op = "Minus" -> emit_byte(P, OpSubtract, line)
         [] op = "Star" -> emit_byte(P, OpMultiply, line)
         [] op = "Slash" -> emit_byte(P, OpDivide, line)
         [] op = "EqualEqual" -> emit_byte(P, OpEqual, line)
         [] op = "BangEqual" -> emit_bytes(P, OpEqual, OpNot, line)
         [] op = "Greater" -> emit_byte(P, OpGreater, line)
         [] op = "GreaterEqual" -> emit_bytes(P, OpLess, OpNot, line)
         [] op = "Less" -> emit_byte(P, OpLess, line)
         [] op = "LessEqual" -> emit_bytes(P, OpGreater, OpNot, line)
         [] OTHER -> P

\* the opcode unary emits for the operator, after the operand
unary_emit(P, token) ==
    CASE token.type = "Minus" -> emit_byte(P, OpNegate, token.line)
      [] token.type = "Bang" -> emit_byte(P, OpNot, token.line)
      [] OTHER -> P

\* the infix rule parse_precedence looks up after advancing in its loop:
\* the rule of previous_type, the type of the (sub)expression's leading token
infix_rule_of(previous_type, operator_type) == get_rule(previous_type).infix

\* F applied to the value of v, with v evaluated once
Bind(v, F(_)) == CHOOSE y \in {F(x) : x \in {v}} : TRUE

RECURSIVE parse_precedence(_, _), infix_loop(_, _, _), execute_parsfn(_, _),
          unary(_, _), binary(_, _), grouping(_), expression(_)

expression(P) == parse_precedence(P, PrecAssignment)

grouping(P) ==
    Bind(expression(P),
         LAMBDA P1 : consume(P1, "RightParen", "Expect ')' after expression"))

unary(P, token) ==
    Bind(parse_precedence(P, PrecUnary),
         LAMBDA P1 : Bind(expression(P1),
                          LAMBDA P2 : unary_emit(P2, token)))

binary(P, token) ==
    Bind(parse_precedence(P, get_rule(token.type).precedence + 1),
         LAMBDA P1 : binary_emit(P1, token))

execute_parsfn(P, parsfn) ==
    LET token == P.previous
    IN CASE parsfn = "Literal" -> literal(P, token)
         [] parsfn = "Number" -> number(P, token)
         [] parsfn = "Unary" -> unary(P, token)
         [] parsfn = "Binary" -> binary(P, token)
         [] parsfn = "Grouping" -> grouping(P)
         [] parsfn = "String" -> string(P, token)
         [] OTHER -> P

\* the loop of parse_precedence, lines 153-163
infix_loop(P, precedence, previous_type) ==
    IF precedence <= get_rule(P.current.type).precedence
    THEN Bind(advance(P),
              LAMBDA P1 :
                Bind(execute_parsfn(P1, infix_rule_of(previous_type, P1.previous.type)),
                     LAMBDA P2 : infix_loop(P2, precedence, previous_type)))
    ELSE P

parse_precedence(P, precedence) ==
    Bind(advance(P),
         LAMBDA P1 :
           LET token == P1.previous
               previous_type == token.type
               prefix_rule == get_rule(previous_type).prefix
               P2 == IF prefix_rule = "Null" THEN error(P1, "Expect expression")
                     ELSE P1
           IN Bind(execute_parsfn(P2, prefix_rule),
                   LAMBDA P3 : infix_loop(P3, precedence, previous_type)))

end_compiler(P, previous_line, has_error) == emit_byte(P, OpReturn, previous_line)

\* compile(s, chunk): the chunk written, and ok = !parser.had_error
compile(s, chunk) ==
    Bind(advance(NewParser(s, chunk)),
         LAMBDA P0 :
           Bind(expression(P0),
                LAMBDA P1 :
                  Bind(consume(P1, "EOF", "Expect end of expression"),
                       LAMBDA P2 :
                         Bind(end_compiler(P2, P2.previous.line, P2.had_error),
                              LAMBDA P3 : [ok |-> ~P3.had_error,
                                           chunk |-> P3.chunk,
                                           reports |-> P3.reports]))))

(***************************************************************************)
(* interpret (src/src/main.rs): compile, and run only what compiled.       *)
(***************************************************************************)
\* mutant of interpret: the chunk is run whatever compile returned
interpret_ignoring_compile(s, c) ==
    Bind(compile(s, c),
         LAMBDA r : [run |-> TRUE, result |-> "None",
                     ok |-> r.ok, chunk |-> r.chunk, reports |-> r.reports])

interpret(s, c) ==
    Bind(compile(s, c),
         LAMBDA r :
           IF ~r.ok
           THEN [run |-> FALSE, result |-> "InterpretCompileError",
                 ok |-> r.ok, chunk |-> r.chunk, reports |-> r.reports]
           ELSE [run |-> TRUE, result |-> "None",
                 ok |-> r.ok, chunk |-> r.chunk, reports |-> r.reports])

(***************************************************************************)
(* The operand stack (VirtualMachineStack).  An operation that panics      *)
(* returns ok = FALSE.                                                     *)
(***************************************************************************)
StackDefault == [values |-> [i \in 0..(STACK_MAX - 1) |-> from_none], top |-> 0]

\* mutant of push: no capacity check
push_unchecked(S, value) ==
    [ok |-> TRUE,
     stack |-> [values |-> [S.values EXCEPT ![S.top] = value], top |-> S.top + 1]]

push(S, value) ==
    IF S.top >= STACK_MAX THEN [ok |-> FALSE, stack |-> S]
    ELSE [ok |-> TRUE,
          stack |-> [values |-> [S.values EXCEPT ![S.top] = value],
                     top |-> S.top + 1]]

pop(S) ==
    IF S.top = 0 THEN [ok |-> FALSE, stack |-> S, value |-> from_none]
    ELSE [ok |-> TRUE, stack |-> [S EXCEPT !.top = @ - 1],
          value |-> S.values[S.top - 1]]

\* negate_peek: err = TRUE when the negation is reported as a runtime error
negate_peek(S) ==
    IF S.top = 0 THEN [ok |-> FALSE, err |-> FALSE, stack |-> S, value |-> from_none]
    ELSE LET v == ValueNeg(S.values[S.top - 1])
         IN IF v.ok
            THEN [ok |-> TRUE, err |-> FALSE,
                  stack |-> [S EXCEPT !.values[S.top - 1] = v.v],
                  value |-> S.values[S.top - 1]]
            ELSE [ok |-> TRUE, err |-> TRUE, stack |-> S,
                  value |-> S.values[S.top - 1]]

(***************************************************************************)
(* The local functions of run.                                             *)
(***************************************************************************)
is_false(v) ==
    CASE v.tag = "Nil" -> Ok(from_bool(TRUE))
      [] v.tag = "Bool" -> Ok(from_bool(v.n = 0))
      [] OTHER -> Err

is_equal(v1, v2) ==
    CASE v1.tag = "Nil" /\ v2.tag = "Nil" -> Ok(from_bool(TRUE))
      [] v1.tag = "Bool" /\ v2.tag = "Bool" -> Ok(from_bool(v1.n = v2.n))
      [] v1.tag = "Number" /\ v2.tag = "Number" -> Ok(from_bool(NumEq(v1, v2)))
      [] OTHER -> Ok(from_bool(FALSE))

is_greater(v1, v2) ==
    IF IsNumber(v1) /\ IsNumber(v2) THEN Ok(from_bool(NumGt(v1, v2))) ELSE Err

is_less(v1, v2) ==
    IF IsNumber(v1) /\ IsNumber(v2) THEN Ok(from_bool(NumGt(v1, v2))) ELSE Err

(***************************************************************************)
(* Effects of one instruction on the stack: the stack it leaves, whether   *)
(* the process panicked, whether a runtime error was reported, and the     *)
(* operands v1 (popped first) and v2 (popped second).                      *)
(***************************************************************************)
Effect(stack, panic, err, v1, v2) ==
    [stack |-> stack, panic |-> panic, err |-> err, v1 |-> v1, v2 |-> v2]

\* push of a value computed without operands (Constant, Nil, False, True)
push_effect(S, value) ==
    LET q == push(S, value)
    IN Effect(q.stack, ~q.ok, FALSE, value, from_none)

\* what the arm of a two-operand opcode computes from v1 and v2
binary_result(op, v1, v2) ==
    CASE op = OpAdd -> ValueAdd(v1, v2)
      [] op = OpSubtract -> ValueSub(v1, v2)
      [] op = OpMultiply -> ValueMul(v1, v2)
      [] op = OpDivide -> ValueDiv(v1, v2)
      [] op = OpEqual -> is_equal(v1, v2)
      [] op = OpGreater -> is_greater(v1, v2)
      [] op = OpLess -> is_less(v1, v2)

\* pop v1, pop v2, push the result or report the error
binary_effect(S, op) ==
    LET p1 == pop(S)
    IN IF ~p1.ok THEN Effect(p1.stack, TRUE, FALSE, from_none, from_none)
       ELSE LET p2 == pop(p1.stack)
            IN IF ~p2.ok THEN Effect(p2.stack, TRUE, FALSE, p1.value, from_none)
               ELSE LET r == binary_result(op, p1.value, p2.value)
                    IN IF r.ok
                       THEN LET q == push(p2.stack, r.v)
                            IN Effect(q.stack, ~q.ok, FALSE, p1.value, p2.value)
                       ELSE Effect(p2.stack, FALSE, TRUE, p1.value, p2.value)

not_effect(S) ==
    LET p == pop(S)
    IN IF ~p.ok THEN Effect(p.stack, TRUE, FALSE, from_none, from_none)
       ELSE LET r == is_false(p.value)
            IN IF r.ok
               THEN LET q == push(p.stack, r.v)
                    IN Effect(q.stack, ~q.ok, FALSE, p.value, from_none)
               ELSE Effect(p.stack, FALSE, TRUE, p.value, from_none)

negate_effect(S) ==
    LET r == negate_peek(S)
    IN Effect(r.stack, ~r.ok, r.err, r.value, from_none)

return_effect(S) ==
    LET p == pop(S)
    IN Effect(p.stack, ~p.ok, FALSE, p.value, from_none)

(***************************************************************************)
(* Sources: token sequences handed to interpret.                           *)
(***************************************************************************)
N(k) == Tok("Number", <<k>>)

T(type) == Tok(type, <<>>)

NumberTokens == {N(k) : k \in 0..MaxNum}

StringTokens == {Tok("String", <<120>>), Tok("String", <<121>>)}

LiteralTokens ==
    NumberTokens \cup StringTokens \cup {T("True"), T("False"), T("Nil")}

ArithTokens == {T("Plus"), T("Minus"), T("Star"), T("Slash")}

BinaryTokens ==
    ArithTokens \cup {T("EqualEqual"), T("BangEqual"), T("Greater"),
                      T("GreaterEqual"), T("Less"), T("LessEqual")}

UnaryTokens == {T("Minus"), T("Bang")}

AllTokens ==
    LiteralTokens \cup BinaryTokens \cup UnaryTokens
        \cup {T("LeftParen"), T("RightParen"), Tok("Error", <<>>)}

RECURSIVE SeqsUpTo(_, _)
SeqsUpTo(S, k) ==
    IF k = 0 THEN {<<>>}
    ELSE LET shorter == SeqsUpTo(S, k - 1)
         IN shorter \cup {Append(q, x) : q \in shorter, x \in S}

RECURSIVE UnaryChain(_)
UnaryChain(k) == IF k = 0 THEN <<>> ELSE <<T("Minus"), N(1)>> \o UnaryChain(k - 1)

\* the sources the specification names in its testable properties
Src_1_Plus_2_Star_3 == <<N(1), T("Plus"), N(2), T("Star"), N(3)>>

Src_Group_1_Plus_2_Star_3 ==
    <<T("LeftParen"), N(1), T("Plus"), N(2), T("RightParen"), T("Star"), N(3)>>

Src_10_Minus_3_Minus_2 ==
    <<Tok("Number", <<1, 0>>), T("Minus"), N(3), T("Minus"), N(2)>>

Src_Unterminated == <<T("LeftParen"), N(1), T("Plus"), N(2)>>

Src_1_Plus_Text == <<N(1), T("Plus"), Tok("String", <<120>>)>>

ExampleSources ==
    { Src_1_Plus_2_Star_3, Src_Group_1_Plus_2_Star_3, Src_10_Minus_3_Minus_2,
      <<N(3), T("BangEqual"), N(3)>>,
      <<N(3), T("LessEqual"), N(3)>>,
      <<N(2), T("GreaterEqual"), N(3)>>,
      <<N(3), T("Less"), N(5)>>,
      <<N(5), T("Less"), N(3)>>,
      <<T("Bang"), T("Nil")>>,
      <<T("Bang"), T("False")>>,
      <<T("Bang"), T("True")>>,
      <<T("Bang"), N(0)>>,
      Src_Unterminated, Src_1_Plus_Text,
      <<Tok("Number", <<1, Dot, 5>>)>> }

Sources ==
    SeqsUpTo(AllTokens, MaxTokens)
        \cup ExampleSources
        \cup {<<a, op, b>> : a \in LiteralTokens, op \in BinaryTokens, b \in LiteralTokens}
        \cup {<<u, a, b>> : u \in UnaryTokens, a \in LiteralTokens, b \in LiteralTokens}
        \cup {<<u, a, op, b>> :
                u \in UnaryTokens, a \in NumberTokens, op \in ArithTokens, b \in NumberTokens}
        \cup {<<u, a, lead, op, b>> :
                u \in UnaryTokens, a \in LiteralTokens, lead \in {T("Plus")},
                op \in BinaryTokens, b \in LiteralTokens}
        \cup {<<a, o1, b, o2, c>> :
                a \in NumberTokens, o1 \in ArithTokens, b \in NumberTokens,
                o2 \in ArithTokens, c \in NumberTokens}
        \cup {<<T("LeftParen"), a, o1, b, T("RightParen"), o2, c>> :
                a \in NumberTokens, o1 \in ArithTokens, b \in NumberTokens,
                o2 \in ArithTokens, c \in NumberTokens}
        \cup {UnaryChain(k) : k \in 1..(STACK_MAX + 1)}

\* the lines typed at the prompt
PromptSources ==
    { <<>>,
      <<N(1)>>, <<N(2)>>, <<T("Nil")>>, <<Tok("String", <<120>>)>>,
      <<T("Minus"), N(1)>>,
      <<T("Bang"), T("Nil")>>,
      <<T("Minus"), Tok("String", <<120>>)>>,
      <<T("Minus"), N(1), N(2)>>,
      <<T("Plus"), T("Star"), N(2)>>,
      <<N(1), T("Plus"), N(2)>>,
      <<T("Minus"), N(1), T("Plus"), T("Minus"), N(2)>>,
      <<T("Minus"), Tok("String", <<120>>), T("Plus"), T("EqualEqual"),
        Tok("String", <<120>>)>>,
      Src_Unterminated,
      UnaryChain(STACK_MAX) }

(***************************************************************************)
(* The disassembler (vm.rs).  A listing is the header followed by one      *)
(* entry per instruction visited: its offset, the line column (the line    *)
(* number, or "|" when the line is that of the previous byte), the opcode  *)
(* and, for Constant, the operand and the pool value printed.              *)
(***************************************************************************)
simple_instruction(op, offset) ==
    [next |-> offset + 1, text |-> <<op>>, panic |-> FALSE]

\* mutant of constant_instruction: the operand byte is not skipped
constant_instruction_as_one_byte(op, offset, c) ==
    [next |-> offset + 1, text |-> <<op>>, panic |-> FALSE]

\* chunk.bytecode[offset + 1] and const_pool.values[constant] panic when the
\* index is out of range
constant_instruction(op, offset, c) ==
    IF offset + 2 > Len(c.bytecode)
    THEN [next |-> offset, text |-> <<op>>, panic |-> TRUE]
    ELSE LET constant == c.bytecode[offset + 2]
         IN IF constant >= Len(c.const_pool)
            THEN [next |-> offset, text |-> <<op, constant>>, panic |-> TRUE]
            ELSE [next |-> offset + 2,
                  text |-> <<op, constant, c.const_pool[constant + 1]>>,
                  panic |-> FALSE]

disassemble_instruction(c, offset) ==
    LET instruction == c.bytecode[offset + 1]
        line == IF offset > 0 /\ c.lines[offset + 1] = c.lines[offset]
                THEN "|" ELSE c.lines[offset + 1]
        r == IF instruction = OpConstant
             THEN constant_instruction(instruction, offset, c)
             ELSE simple_instruction(instruction, offset)
    IN [offset |-> offset, line |-> line, text |-> r.text, next |-> r.next,
        panic |-> r.panic]

\* the loop of disassemble_chunk from the given offset
RECURSIVE disassemble_from(_, _)
disassemble_from(c, offset) ==
    IF offset < c.count
    THEN LET e == disassemble_instruction(c, offset)
         IN IF e.panic THEN <<e>> ELSE <<e>> \o disassemble_from(c, e.next)
    ELSE <<>>

disassemble_chunk(c, name) == [header |-> name, entries |-> disassemble_from(c, 0)]

(***************************************************************************)
(* State.                                                                  *)
(***************************************************************************)
VARIABLES
    mode,       \* "file" (run_file) or "prompt" (run_prompt)
    unit,       \* number of calls of interpret so far
    entry,      \* what the current call of interpret found: ip, stack, sizes
    listings,   \* the outputs of the calls of disassemble_chunk, in order
    phase,      \* "start" (about to read a source), "running" (inside run), "done"
    source,     \* the token sequence given to interpret
    compiled,   \* outcome of compile: [done, ok, reports]
    chunk,      \* the Chunk compiled into and run
    ip,         \* vm.ip
    vm_stack,   \* vm.vm_stack: [values, top]
    result,     \* "None", an InterpretResult, or "Panic" (process aborted)
    printed,    \* the values printed by Return
    rt_errors,  \* number of calls of runtime_error in the run
    executed,   \* number of instructions fetched by run
    late_fetch, \* an instruction was fetched after a runtime error was reported
    last        \* the instruction executed last: opcode, operands, outcome

vars == <<mode, unit, entry, listings, phase, source, compiled, chunk, ip,
          vm_stack, result, printed, rt_errors, executed, late_fetch, last>>

NoInstruction ==
    [op |-> -1, v1 |-> from_none, v2 |-> from_none, err |-> FALSE, panic |-> FALSE,
     before |-> StackDefault]

\* main: no path argument starts run_prompt, one path starts run_file; each
\* creates one VirtualMachine::default() and one Chunk::default()
Init ==
    /\ mode \in {"file", "prompt"}
    /\ unit = 0
    /\ entry = [ip |-> 0, stack |-> StackDefault, count |-> 0, printed |-> 0]
    /\ listings = <<>>
    /\ phase = "start"
    /\ source = <<>>
    /\ compiled = [done |-> FALSE, ok |-> FALSE, reports |-> <<>>]
    /\ chunk = EmptyChunk
    /\ ip = 0
    /\ vm_stack = StackDefault
    /\ result = "None"
    /\ printed = <<>>
    /\ rt_errors = 0
    /\ executed = 0
    /\ late_fetch = FALSE
    /\ last = NoInstruction

\* run_file calls interpret once; run_prompt calls it once per line read
UnitLimit == IF mode = "file" THEN 1 ELSE MaxLines

\* interpret(s, &mut vm, &mut chunk): compile appends to the chunk it is
\* given, which run_prompt creates once, before its loop; the virtual machine
\* then runs that chunk (update_chunk, run) from the ip and the stack it has.
\* A CompileError makes run_file and run_prompt exit the process.
Interpret ==
    /\ phase = "start"
    /\ unit < UnitLimit
    /\ \E s \in (IF mode = "file" THEN Sources ELSE PromptSources) :
        \E r \in {interpret(s, chunk)} :
           /\ source' = s
           /\ compiled' = [done |-> TRUE, ok |-> r.ok, reports |-> r.reports]
           /\ chunk' = r.chunk
           /\ result' = r.result
           /\ phase' = IF r.run THEN "running" ELSE "done"
    /\ unit' = unit + 1
    /\ entry' = [ip |-> ip, stack |-> vm_stack, count |-> Len(chunk.bytecode),
                 printed |-> Len(printed)]
    /\ rt_errors' = 0
    /\ executed' = 0
    /\ late_fetch' = FALSE
    /\ last' = NoInstruction
    /\ UNCHANGED <<mode, listings, ip, vm_stack, printed>>

\* run_prompt reads the line "exit", or reading the line fails: the loop ends
PromptExit ==
    /\ mode = "prompt"
    /\ phase = "start"
    /\ phase' = "done"
    /\ UNCHANGED <<mode, unit, entry, listings, source, compiled, chunk, ip,
                   vm_stack, result, printed, rt_errors, executed, late_fetch, last>>

\* disassemble_chunk(&chunk, "code") on the chunk of a finished process
Disassemble ==
    /\ phase = "done"
    /\ Len(listings) < MaxListings
    /\ listings' = Append(listings, [out |-> disassemble_chunk(chunk, "code"),
                                     chunk |-> chunk])
    /\ UNCHANGED <<mode, unit, entry, phase, source, compiled, chunk, ip, vm_stack,
                   result, printed, rt_errors, executed, late_fetch, last>>

\* read_op finds opcode op at ip.  Every chunk compile writes ends with Return,
\* so a run never reaches the end of the bytecode with ip out of range.
Fetch(op) ==
    /\ phase = "running"
    /\ ip < Len(chunk.bytecode)
    /\ chunk.bytecode[ip + 1] = op

\* the state after an instruction of the given width with effect e
Commit(op, e, width) ==
    /\ ip' = ip + width
    /\ vm_stack' = e.stack
    /\ executed' = executed + 1
    /\ late_fetch' = (late_fetch \/ rt_errors > 0)
    /\ rt_errors' = rt_errors + (IF e.err THEN 1 ELSE 0)
    /\ last' = [op |-> op, v1 |-> e.v1, v2 |-> e.v2, err |-> e.err,
                panic |-> e.panic, before |-> vm_stack]
    /\ IF e.panic THEN phase' = "done" /\ result' = "Panic"
       ELSE IF op = OpReturn
       THEN /\ phase' = (IF mode = "prompt" THEN "start" ELSE "done")
            /\ result' = "InterpretOk"
       ELSE UNCHANGED <<phase, result>>
    /\ printed' = IF op = OpReturn /\ ~e.panic THEN Append(printed, e.v1) ELSE printed
    /\ UNCHANGED <<mode, unit, entry, listings, source, compiled, chunk>>

\* read_constant: the operand byte after the opcode indexes the pool
read_constant_ok ==
    /\ ip + 1 < Len(chunk.bytecode)
    /\ chunk.bytecode[ip + 2] < Len(chunk.const_pool)

OpReturnStep == Fetch(OpReturn) /\ Commit(OpReturn, return_effect(vm_stack), 1)

OpConstantStep ==
    /\ Fetch(OpConstant)
    /\ IF read_constant_ok
       THEN Commit(OpConstant,
                   push_effect(vm_stack, chunk.const_pool[chunk.bytecode[ip + 2] + 1]), 2)
       ELSE Commit(OpConstant, Effect(vm_stack, TRUE, FALSE, from_none, from_none), 2)

OpNegateStep == Fetch(OpNegate) /\ Commit(OpNegate, negate_effect(vm_stack), 1)

OpAddStep == Fetch(OpAdd) /\ Commit(OpAdd, binary_effect(vm_stack, OpAdd), 1)

OpSubtractStep ==
    Fetch(OpSubtract) /\ Commit(OpSubtract, binary_effect(vm_stack, OpSubtract), 1)

OpMultiplyStep ==
    Fetch(OpMultiply) /\ Commit(OpMultiply, binary_effect(vm_stack, OpMultiply), 1)

OpDivideStep ==
    Fetch(OpDivide) /\ Commit(OpDivide, binary_effect(vm_stack, OpDivide), 1)

OpNilStep == Fetch(OpNil) /\ Commit(OpNil, push_effect(vm_stack, from_none), 1)

OpFalseStep == Fetch(OpFalse) /\ Commit(OpFalse, push_effect(vm_stack, from_bool(TRUE)), 1)

OpTrueStep == Fetch(OpTrue) /\ Commit(OpTrue, push_effect(vm_stack, from_bool(FALSE)), 1)

OpNotStep == Fetch(OpNot) /\ Commit(OpNot, not_effect(vm_stack), 1)

OpEqualStep == Fetch(OpEqual) /\ Commit(OpEqual, binary_effect(vm_stack, OpEqual), 1)

OpGreaterStep ==
    Fetch(OpGreater) /\ Commit(OpGreater, binary_effect(vm_stack, OpGreater), 1)

OpLessStep == Fetch(OpLess) /\ Commit(OpLess, binary_effect(vm_stack, OpLess), 1)

Next ==
    \/ Interpret
    \/ PromptExit
    \/ Disassemble
    \/ OpReturnStep
    \/ OpConstantStep
    \/ OpNegateStep
    \/ OpAddStep
    \/ OpSubtractStep
    \/ OpMultiplyStep
    \/ OpDivideStep
    \/ OpNilStep
    \/ OpFalseStep
    \/ OpTrueStep
    \/ OpNotStep
    \/ OpEqualStep
    \/ OpGreaterStep
    \/ OpLessStep

Spec == Init /\ [][Next]_vars

(***************************************************************************)
(* Properties.                                                             *)
(***************************************************************************)
\* run is at an instruction boundary with opcode op about to be fetched
Pending(op) == Fetch(op)

\* the current call of interpret has returned
UnitDone == compiled.done /\ phase # "running"

\* the current call of interpret found an empty chunk and a new machine
FreshUnit == entry.count = 0 /\ entry.ip = 0 /\ entry.stack = StackDefault

\* the unit ended Ok and printed exactly the value v
Yields(v) ==
    /\ result = "InterpretOk"
    /\ Len(printed) = entry.printed + 1
    /\ printed[Len(printed)] = v

LiteralTypes == {"Number", "String", "True", "False", "Nil"}

BinaryTypes ==
    {"Plus", "Minus", "Star", "Slash", "EqualEqual", "BangEqual", "Greater",
     "GreaterEqual", "Less", "LessEqual"}

\* s is an expression of the language's grammar:
\* literal | ("-" | "!") expression | expression operator expression | "(" expression ")"
RECURSIVE IsExpression(_)
IsExpression(s) ==
    /\ Len(s) >= 1
    /\ \/ Len(s) = 1 /\ s[1].type \in LiteralTypes
       \/ s[1].type \in {"Minus", "Bang"} /\ IsExpression(Tail(s))
       \/ /\ Len(s) >= 3
          /\ s[1].type = "LeftParen"
          /\ s[Len(s)].type = "RightParen"
          /\ IsExpression(SubSeq(s, 2, Len(s) - 1))
       \/ \E i \in 2..(Len(s) - 1) :
            /\ s[i].type \in BinaryTypes
            /\ IsExpression(SubSeq(s, 1, i - 1))
            /\ IsExpression(SubSeq(s, i + 1, Len(s)))

\* C1: fail fast.  Once an instruction of run has reported a runtime
\* violation (a non-Number operand of an arithmetic, comparison or Negate
\* instruction, a non-Nil/Bool operand of Not), the run call has ended with
\* the result RuntimeError and no further instruction has been fetched.
C1_FailFast ==
    rt_errors > 0 =>
        /\ phase = "done"
        /\ result = "InterpretRunTimeError"
        /\ ~late_fetch

\* C2: a stack-discipline violation (push on a full stack, pop or
\* negate_peek on an empty one) during run is surfaced as the result
\* RuntimeError and never aborts the process.
C2_StackViolationSurfaced ==
    /\ result # "Panic"
    /\ last.panic => result = "InterpretRunTimeError"

\* C3: the source 1 + "x" compiles (compile returns true) and its run ends
\* with the result RuntimeError, not Ok and not a crash.
C3_NumberPlusText ==
    (source = Src_1_Plus_Text /\ compiled.done) =>
        /\ compiled.ok
        /\ phase = "done" => result = "InterpretRunTimeError"

\* C4: for a syntactically valid expression that compile accepted into a
\* fresh chunk, run from an empty stack has exactly one value on the stack
\* in the state in which the terminal Return instruction is about to execute
\* (in a run that has reported no runtime error).
C4_DepthOneBeforeReturn ==
    (/\ FreshUnit
     /\ compiled.ok
     /\ rt_errors = 0
     /\ Pending(OpReturn)
     /\ IsExpression(source)) => vm_stack.top = 1

\* C5: precedence, grouping and left associativity.  1 + 2 * 3 yields 7,
\* (1 + 2) * 3 yields 9, 10 - 3 - 2 yields 5, and for all number literals
\* a, b, c: a - b - c yields (a - b) - c and a + b * c yields a + (b * c).
C5_Arithmetic ==
    UnitDone =>
        /\ source = Src_1_Plus_2_Star_3 => Yields(from_number(7))
        /\ source = Src_Group_1_Plus_2_Star_3 => Yields(from_number(9))
        /\ source = Src_10_Minus_3_Minus_2 => Yields(from_number(5))
        /\ \A a, b, c \in 0..MaxNum :
            /\ source = <<N(a), T("Minus"), N(b), T("Minus"), N(c)>>
                  => Yields(from_number((a - b) - c))
            /\ source = <<N(a), T("Plus"), N(b), T("Star"), N(c)>>
                  => Yields(from_number(a + (b * c)))

\* C6: Less is the strict less-than and Greater the strict greater-than of
\* the left operand a (pushed first, popped second) and the right operand b
\* (pushed second, popped first): whenever a Less or Greater instruction has
\* executed on two Numbers, the value it pushed is a < b for Less and a > b
\* for Greater, so the two are never both true of the same pair.
C6_LessAndGreater ==
    (/\ last.op \in {OpLess, OpGreater}
     /\ ~last.panic
     /\ IsNumber(last.v1)
     /\ IsNumber(last.v2)) =>
        /\ ~last.err
        /\ vm_stack.top >= 1
        /\ vm_stack.values[vm_stack.top - 1] =
              from_bool(IF last.op = OpLess THEN NumGt(last.v1, last.v2)
                        ELSE NumGt(last.v2, last.v1))

\* C7: the fused comparisons give the conventional results.  For all number
\* literals a, b the source a != b yields the negation of a == b, a <= b
\* yields true iff a is at most b, and a >= b yields true iff a is at least b.
C7_FusedComparisons ==
    UnitDone =>
        \A a, b \in 0..MaxNum :
            /\ source = <<N(a), T("BangEqual"), N(b)>> => Yields(from_bool(a # b))
            /\ source = <<N(a), T("LessEqual"), N(b)>> => Yields(from_bool(a <= b))
            /\ source = <<N(a), T("GreaterEqual"), N(b)>> => Yields(from_bool(a >= b))

\* C8: logical negation of literals.  !nil yields true, !false yields true,
\* !true yields false, and ! applied to a number literal ends with the
\* result RuntimeError.
C8_NotOfLiterals ==
    UnitDone =>
        /\ source = <<T("Bang"), T("Nil")>> => Yields(from_bool(TRUE))
        /\ source = <<T("Bang"), T("False")>> => Yields(from_bool(TRUE))
        /\ source = <<T("Bang"), T("True")>> => Yields(from_bool(FALSE))
        /\ \A k \in 0..MaxNum :
              source = <<T("Bang"), N(k)>> => result = "InterpretRunTimeError"

\* C9: whenever compile reports failure, interpret returns CompileError and
\* run is never invoked: no instruction of the partial bytecode is fetched
\* and the virtual machine is left as it was.
C9_FailedCompileNeverRuns ==
    (compiled.done /\ ~compiled.ok) =>
        /\ phase = "done"
        /\ result = "InterpretCompileError"
        /\ executed = 0
        /\ ip = entry.ip
        /\ vm_stack = entry.stack
        /\ Len(printed) = entry.printed

\* C9 witness: the unterminated grouping ( 1 + 2 failed to compile, leaving
\* partial bytecode in the chunk, and interpret returned CompileError.
C9_Witness ==
    /\ source = Src_Unterminated
    /\ compiled.done
    /\ ~compiled.ok
    /\ Len(chunk.bytecode) > 0
    /\ result = "InterpretCompileError"

\* C10: in a run of a chunk produced by compile, whenever a Constant
\* instruction is about to read its operand, the operand byte exists and is
\* an index into the chunk's constant pool (0 <= operand < pool length).
C10_ConstantOperandInPool ==
    (compiled.ok /\ Pending(OpConstant)) =>
        /\ ip + 1 < Len(chunk.bytecode)
        /\ chunk.bytecode[ip + 2] >= 0
        /\ chunk.bytecode[ip + 2] < Len(chunk.const_pool)

\* C10 witness: a Constant instruction has read the second entry of a pool
\* of at least two constants and pushed it.
C10_Witness ==
    /\ compiled.ok
    /\ last.op = OpConstant
    /\ ~last.panic
    /\ Len(chunk.const_pool) >= 2
    /\ chunk.bytecode[ip] = 1
    /\ last.v1 = chunk.const_pool[2]
    /\ vm_stack.values[vm_stack.top - 1] = chunk.const_pool[2]

\* C11: in every reachable state the operand stack satisfies
\* 0 <= top <= STACK_MAX and keeps its STACK_MAX slots, whatever sequence of
\* push, pop and negate_peek the instructions have performed and however
\* many runs the same virtual machine has made (the lines of a prompt).
C11_TopWithinCapacity ==
    /\ vm_stack.top >= 0
    /\ vm_stack.top <= STACK_MAX
    /\ DOMAIN vm_stack.values = 0..(STACK_MAX - 1)

\* C11 witness: in a later run of the same machine, which began with values
\* an earlier run had left on the stack, a push filled the stack and the
\* next push was refused with top at STACK_MAX.
C11_Witness ==
    /\ mode = "prompt"
    /\ unit >= 2
    /\ entry.stack.top > 0
    /\ last.op = OpConstant
    /\ last.panic
    /\ vm_stack.top = STACK_MAX

\* C12: in prompt mode every line is an independent compile unit.  The chunk
\* that is compiled into and executed for a line was empty when the line
\* arrived (the chunk is replaced per line) and holds exactly the bytecode,
\* the line map and the constants which that line alone compiles to.
C12_ChunkPerLine ==
    (mode = "prompt" /\ compiled.done) =>
        /\ entry.count = 0
        /\ chunk = compile(source, EmptyChunk).chunk

\* the operands of the Constant instructions of the bytecode from the given
\* offset on, in order (an instruction is 2 bytes for Constant, 1 otherwise)
RECURSIVE ConstantOperands(_, _)
ConstantOperands(bytecode, offset) ==
    IF offset >= Len(bytecode) THEN <<>>
    ELSE IF bytecode[offset + 1] # OpConstant
    THEN ConstantOperands(bytecode, offset + 1)
    ELSE IF offset + 1 >= Len(bytecode) THEN <<-1>>
    ELSE <<bytecode[offset + 2]>> \o ConstantOperands(bytecode, offset + 2)

\* the constant a Number or String token denotes
LiteralValue(token) ==
    IF token.type = "Number" THEN ParseF64(token.lexeme)
    ELSE from_string(token.lexeme)

RECURSIVE InstructionOffsets(_, _)
InstructionOffsets(bytecode, offset) ==
    IF offset >= Len(bytecode) THEN <<>>
    ELSE <<offset>> \o
         InstructionOffsets(bytecode,
                            offset + (IF bytecode[offset + 1] = OpConstant THEN 2 ELSE 1))

C15_ExpectExpressionFails ==
    (/\ compiled.done
     /\ \E k \in 1..Len(compiled.reports) : compiled.reports[k] = "Expect expression")
        => ~compiled.ok

\* the opcodes binary emits for an operator token
OperatorOpcodes(type) ==
    CASE type = "Plus" -> <<OpAdd>>
      [] type = "Minus" -> <<OpSubtract>>
      [] type = "Star" -> <<OpMultiply>>
      [] type = "Slash" -> <<OpDivide>>
      [] type = "EqualEqual" -> <<OpEqual>>
      [] type = "BangEqual" -> <<OpEqual, OpNot>>
      [] type = "Greater" -> <<OpGreater>>
      [] type = "GreaterEqual" -> <<OpLess, OpNot>>
      [] type = "Less" -> <<OpLess>>
      [] type = "LessEqual" -> <<OpGreater, OpNot>>

\* the bytecode a literal token compiles to when its constant has the index k
LiteralCode(token, k) ==
    CASE token.type \in {"Number", "String"} -> <<OpConstant, k>>
      [] token.type = "Nil" -> <<OpNil>>
      [] token.type = "True" -> <<OpTrue>>
      [] token.type = "False" -> <<OpFalse>>

\* the number of pool entries a literal token adds
LiteralConstants(token) == IF token.type \in {"Number", "String"} THEN 1 ELSE 0

\* C16: the infix loop of parse_precedence invokes the handler registered
\* for the operator token that has just become previous, not for the leading
\* token of the expression.  So for every source a OP b of two literals and a
\* binary operator, compiled into an empty chunk, compile succeeds and the
\* bytecode is the code of a, the code of b, the opcodes of OP, Return.
C16_InfixHandlerOfOperator ==
    (compiled.done /\ FreshUnit) =>
        \A a \in LiteralTokens, op \in BinaryTokens, b \in LiteralTokens :
            source = <<a, op, b>> =>
                /\ compiled.ok
                /\ chunk.bytecode =
                      LiteralCode(a, 0) \o LiteralCode(b, LiteralConstants(a))
                          \o OperatorOpcodes(op.type) \o <<OpReturn>>

\* C17: unary parses exactly one operand, at Unary precedence, and then
\* emits exactly one opcode, consuming no token beyond the operand.  So for
\* every literal x, -x and !x compile into an empty chunk with no error
\* reported, to the code of x, Negate (Not for !), Return; and a source with
\* a second literal after the operand, - x y, does not compile, the token y
\* being left for compile to reject.
C17_UnaryOneOperand ==
    (compiled.done /\ FreshUnit) =>
        \A u \in UnaryTokens, x \in LiteralTokens :
            /\ source = <<u, x>> =>
                  /\ compiled.ok
                  /\ compiled.reports = <<>>
                  /\ chunk.bytecode =
                        LiteralCode(x, 0)
                            \o <<IF u.type = "Minus" THEN OpNegate ELSE OpNot, OpReturn>>
            /\ \A y \in LiteralTokens : source = <<u, x, y>> => ~compiled.ok

\* structural equality of two values: the same variant and equal payloads
StructurallyEqual(v1, v2) ==
    /\ v1.tag = v2.tag
    /\ CASE v1.tag = "Nil" -> TRUE
         [] v1.tag = "Bool" -> v1.n = v2.n
         [] v1.tag = "Number" -> NumEq(v1, v2)
         [] v1.tag = "Text" -> v1.s = v2.s

\* C18: Equal never reports a runtime error and pushes the structural
\* equality of the two values it popped: true iff they are of the same
\* variant with equal payloads (Nil and Nil, equal Bools, equal Numbers,
\* equal Texts), false for values of different variants; the stack is one
\* value shallower than before the instruction.
C18_EqualIsStructural ==
    (last.op = OpEqual /\ ~last.panic) =>
        /\ ~last.err
        /\ vm_stack.top = last.before.top - 1
        /\ vm_stack.values[vm_stack.top - 1]
              = from_bool(StructurallyEqual(last.v1, last.v2))

\* C19: operand order of Subtract and Divide.  Whenever Subtract or Divide
\* has executed on two Numbers, a pushed first (popped second) and b pushed
\* second (popped first), it has pushed a - b for Subtract and a / b for
\* Divide.
C19_SubtractDivideOrder ==
    (/\ last.op \in {OpSubtract, OpDivide}
     /\ ~last.panic
     /\ IsNumber(last.v1)
     /\ IsNumber(last.v2)) =>
        /\ ~last.err
        /\ vm_stack.top >= 1
        /\ vm_stack.values[vm_stack.top - 1] =
              (IF last.op = OpSubtract
               THEN NumAdd(last.v2, NumNeg(last.v1))
               ELSE NumMul(last.v2, NumRecip(last.v1)))

\* the stack depth an instruction leaves when it succeeds at the given depth
DepthAfterSuccess(op, depth) ==
    IF op \in {OpAdd, OpSubtract, OpMultiply, OpDivide, OpEqual, OpGreater, OpLess}
    THEN depth - 1
    ELSE IF op \in {OpConstant, OpNil, OpTrue, OpFalse} THEN depth + 1
    ELSE IF op = OpReturn THEN depth - 1
    ELSE depth

\* C20: a runtime type error does not imbalance the stack.  After a Negate
\* that reported an error on a non-Number, top and every slot are as before
\* the instruction; and after any instruction that reported a runtime error,
\* no later instruction finds the stack shallower than the instruction would
\* have left it on success.
C20_ErrorKeepsStackBalanced ==
    (last.err /\ ~last.panic) =>
        /\ last.op = OpNegate => vm_stack = last.before
        /\ phase = "running" =>
              vm_stack.top >= DepthAfterSuccess(last.op, last.before.top)

\* the instruction pointer is within the bytecode, 0 <= ip <= len(bytecode)
IpWithinBytecode == ip >= 0 /\ ip <= Len(chunk.bytecode)

\* inside run the next fetch is at ip < len(bytecode) and finds an opcode
FetchWithinBytecode ==
    phase = "running" =>
        /\ ip < Len(chunk.bytecode)
        /\ chunk.bytecode[ip + 1] \in OpReturn..OpLess

\* every instruction of the run advanced ip by at least 1 and at most 2, so
\* the run executes at most as many instructions as it was given bytes
IpStrictlyIncreases ==
    /\ executed <= ip - entry.ip
    /\ ip - entry.ip <= 2 * executed
    /\ executed <= Len(chunk.bytecode) - entry.ip

\* a run that has ended did so with Ok at a Return instruction, or with
\* RuntimeError
RunEndedProperly ==
    (UnitDone /\ executed > 0) =>
        \/ result = "InterpretOk" /\ last.op = OpReturn
        \/ result = "InterpretRunTimeError"

\* C21: every run of a chunk produced by a successful compile terminates.
\* In every state 0 <= ip <= len(bytecode), every fetch is at
\* ip < len(bytecode), ip strictly increases with each instruction (so the
\* run takes at most len(bytecode) steps), and the run ends in a terminal
\* state: Ok at the Return instruction, or RuntimeError.
C21_RunTerminates ==
    compiled.ok =>
        /\ IpWithinBytecode
        /\ FetchWithinBytecode
        /\ IpStrictlyIncreases
        /\ RunEndedProperly

\* C22: a run that returns Ok on a chunk produced by a successful compile,
\* started from an empty operand stack, leaves the operand stack empty again
\* (top = 0).  Consequently every unit a persistent virtual machine executes
\* in a session, its earlier units having compiled and ended Ok, starts with
\* an empty stack.
C22_StackEmptyAfterOk ==
    /\ (/\ compiled.ok
        /\ entry.stack.top = 0
        /\ UnitDone
        /\ result = "InterpretOk") => vm_stack.top = 0
    /\ compiled.done => entry.stack.top = 0

=============================================================================
